---------------------------- MODULE Spec2Model ----------------------------
(***************************************************************************)
(* A model of kter (src/kter.py), a terminal dashboard over a Kubernetes   *)
(* cluster built on Textual.                                               *)
(*                                                                         *)
(* Strings are sequences of code points, so that Python's ordering of str  *)
(* (used by DataTable.sort) and the row key f"{namespace}.{name}" are      *)
(* computed rather than assumed.  None is a sentinel no string equals.     *)
(*                                                                         *)
(* Scheduling.  Every handler is a coroutine that suspends only where the  *)
(* source awaits a gateway call (get_pods, get_pod_logs); what follows the *)
(* await runs to the end of the handler without interruption.  The         *)
(* handlers of one object run one at a time, in order; handlers of         *)
(* different objects (the app, the interval timer, the table, a log        *)
(* viewer) interleave at the awaits.  What the framework orders is kept:   *)
(* key bindings and result callbacks are run by the app, one at a time; a  *)
(* screen (and the app itself) takes keys only once the widgets it         *)
(* composed have run their mount handlers; the interval timer awaits its   *)
(* callback before it waits for the next tick, skipping the ticks that     *)
(* fall due meanwhile.  An exception that leaves a handler ends the        *)
(* application.                                                            *)
(***************************************************************************)
EXTENDS Integers, Sequences, FiniteSets, TLC

VARIABLES
    columns,               \* DataTable: ordered column keys
    data,                  \* DataTable._data: <<[key, cells]>> in insertion order
    row_locations,         \* DataTable: row keys in display order
    cursor_row,            \* DataTable.cursor_row (validated by the table)
    previously_namespaced, \* PodTable.previously_namespaced
    selected,              \* the row update_pods last passed to move_cursor
    namespace,             \* KTer.namespace
    api,                   \* KubeInterface.api: the context it was built for
    pc,                    \* where each object's running handler stands
    req,                   \* the get_pods call each handler awaits
    screen_stack,          \* App._screen_stack, bottom first
    notifications,         \* number of app.notify calls so far
    callbacks,             \* result callbacks queued for the app (call_next)
    unhandled,             \* the exception that left a handler, or "none"
    fault,                 \* history: the gateway call that failed last
    last                   \* history: the last completed update_pods

vars == <<columns, data, row_locations, cursor_row, previously_namespaced,
          selected, namespace, api, pc, req, screen_stack, notifications, callbacks, unhandled, fault, last>>

table_vars == <<columns, data, row_locations, cursor_row,
                previously_namespaced, selected, last>>

-----------------------------------------------------------------------------
(* Bounds *)

\* the longest pod list the gateway returns
MaxPods == 2

\* the deepest screen stack explored
MaxDepth == 3

\* the most notifications posted
MaxNotifications == 2

\* the most log screens on the stack when the logs of a pod are asked for
MaxLogScreens == 1

-----------------------------------------------------------------------------
(* Values *)

None == <<-1>>

NsA == <<97>>                                  \* "a"
NsB == <<98>>                                  \* "b"
PodX == <<120>>                                \* "x"
PodY == <<121>>                                \* "y"
Running == <<82, 117, 110>>                    \* "Run"
Pending == <<80, 101, 110>>                    \* "Pen"
CrashLoop == <<67, 114, 97, 115, 104>>         \* "Crash"
Dot == <<46>>                                  \* "."
Slash == <<47>>                                \* "/"

Namespaces == {NsA, NsB}
All == <<97, 108, 108>>                        \* "all"
Ctx1 == <<49>>                                 \* "1"
Ctx2 == <<50>>                                 \* "2"
Contexts == {Ctx1, Ctx2}

ReadyContainer == [ready |-> TRUE, waiting |-> None]
WaitingContainer == [ready |-> FALSE, waiting |-> CrashLoop]

\* The pods a cluster may report.  is_none: container_statuses is None.
PodUniverse ==
    { [namespace |-> NsA, name |-> PodX, is_none |-> FALSE,
       container_statuses |-> <<ReadyContainer>>, phase |-> Running],
      [namespace |-> NsA, name |-> PodX, is_none |-> FALSE,
       container_statuses |-> <<WaitingContainer>>, phase |-> Running],
      [namespace |-> NsA, name |-> PodY, is_none |-> FALSE,
       container_statuses |-> <<ReadyContainer>>, phase |-> Running],
      [namespace |-> NsB, name |-> PodX, is_none |-> FALSE,
       container_statuses |-> <<ReadyContainer>>, phase |-> Running],
      [namespace |-> NsB, name |-> PodX, is_none |-> TRUE,
       container_statuses |-> <<>>, phase |-> Pending] }

Identity(p) == <<p.namespace, p.name>>

\* What get_pods may return for a namespace: a list of pods of the cluster,
\* no identity twice, all in the namespace when one is given.
AllPodLists ==
    { s \in UNION { [1..n -> PodUniverse] : n \in 0..MaxPods } :
        \A i, j \in 1..Len(s) : i # j => Identity(s[i]) # Identity(s[j]) }

PodLists(ns) ==
    { s \in AllPodLists : ns # None => \A i \in 1..Len(s) : s[i].namespace = ns }

-----------------------------------------------------------------------------
(* Python and Textual helpers *)

Min(a, b) == IF a <= b THEN a ELSE b

\* textual.geometry.clamp: the bounds may come in either order
clamp(value, minimum, maximum) ==
    LET lo == Min(minimum, maximum)
        hi == IF minimum <= maximum THEN maximum ELSE minimum
    IN  IF value < lo THEN lo ELSE IF value > hi THEN hi ELSE value

\* str < str
StrLt(s, t) ==
    \E i \in 1..(Len(s) + 1) :
        /\ \A j \in 1..(i - 1) : j <= Len(t) /\ s[j] = t[j]
        /\ IF i = Len(s) + 1 THEN Len(t) >= i
           ELSE i <= Len(t) /\ s[i] < t[i]

\* tuple < tuple, for tuples of str of the same length
TupleLt(a, b) ==
    \E i \in 1..Len(a) :
        /\ \A j \in 1..(i - 1) : a[j] = b[j]
        /\ StrLt(a[i], b[i])

\* str(n) for n >= 0
RECURSIVE Str(_)
Str(n) == IF n < 10 THEN <<48 + n>> ELSE Str(n \div 10) \o <<48 + (n % 10)>>

Range(s) == { s[i] : i \in 1..Len(s) }


-----------------------------------------------------------------------------
(* PodTable: the cells of a pod *)

TypeError == <<-2>>

ReadyCount(statuses) ==
    Cardinality({ i \in 1..Len(statuses) : statuses[i].ready })

\* PodTable.pod_readiness
pod_readiness(pod) ==
    IF pod.is_none THEN <<48>> \o Slash \o <<48>>
    ELSE Str(ReadyCount(pod.container_statuses)) \o Slash
         \o Str(Len(pod.container_statuses))

\* PodTable.pod_status: iterating None raises TypeError
pod_status(pod) ==
    IF pod.is_none THEN TypeError
    ELSE LET cs == pod.container_statuses
             waiting == { i \in 1..Len(cs) : cs[i].waiting # None }
         IN  IF waiting = {} THEN pod.phase
             ELSE cs[CHOOSE i \in waiting : \A j \in waiting : i <= j].waiting

\* PodTable.pod_item
pod_item(pod, include_namespace) ==
    LET item == <<pod.namespace, pod.name, pod_readiness(pod), pod_status(pod)>>
    IN  IF ~include_namespace THEN Tail(item) ELSE item

\* f"{p.metadata.namespace}.{p.metadata.name}"
RowKey(pod) == pod.namespace \o Dot \o pod.name

-----------------------------------------------------------------------------
(* textual.widgets.DataTable, as PodTable uses it.  A table is a record    *)
(* [columns, data, row_locations, cursor_row].                             *)

Table == [columns |-> columns, data |-> data,
          row_locations |-> row_locations, cursor_row |-> cursor_row]

Keys(d) == { d[i].key : i \in 1..Len(d) }

\* the cursor validator DataTable runs on every assignment
validate_cursor(T) ==
    [T EXCEPT !.cursor_row = clamp(@, 0, Len(T.data) - 1)]

\* DataTable.clear(): rows dropped, columns kept, cursor to the first row
clear(T) == [T EXCEPT !.data = <<>>, !.row_locations = <<>>, !.cursor_row = 0]

\* try: remove_column(key)  except ColumnDoesNotExist: pass
remove_column(T, key) ==
    IF key \notin Range(T.columns) THEN T
    ELSE LET cols == SelectSeq(T.columns, LAMBDA c : c # key)
         IN  validate_cursor(
               [T EXCEPT !.columns = cols,
                         !.data = [i \in 1..Len(T.data) |->
                            [T.data[i] EXCEPT !.cells =
                               [c \in Range(cols) |-> T.data[i].cells[c]]]]])

\* try: get_column_index(key)  except ColumnDoesNotExist: add_column(key, key=key)
ensure_column(T, key) ==
    IF key \in Range(T.columns) THEN T
    ELSE [T EXCEPT !.columns = Append(@, key),
                   !.data = [i \in 1..Len(T.data) |->
                      [T.data[i] EXCEPT !.cells =
                         [c \in Range(T.columns) \cup {key} |->
                            IF c = key THEN None ELSE T.data[i].cells[c]]]]]

\* DataTable.update_cell
update_cell(T, row_key, column_key, value) ==
    [T EXCEPT !.data = [i \in 1..Len(T.data) |->
        IF T.data[i].key = row_key
        THEN [T.data[i] EXCEPT !.cells[column_key] = value]
        ELSE T.data[i]]]

\* DataTable.remove_row: the rows below move up, the cursor is revalidated
remove_row(T, row_key) ==
    validate_cursor(
      [T EXCEPT !.data = SelectSeq(@, LAMBDA r : r.key # row_key),
                !.row_locations = SelectSeq(@, LAMBDA k : k # row_key)])

\* DataTable.add_row(*cells, key=key): the cells paired with the columns in
\* order, the row placed last
add_row(T, cells, key) ==
    LET index(c) == CHOOSE i \in 1..Len(T.columns) : T.columns[i] = c
        row == [c \in Range(T.columns) |->
                  IF index(c) <= Len(cells) THEN cells[index(c)] ELSE None]
    IN  [T EXCEPT !.data = Append(@, [key |-> key, cells |-> row]),
                  !.row_locations = Append(@, key)]

SortKey(row, cols) == [i \in 1..Len(cols) |-> row.cells[cols[i]]]

\* sorted(self._data.items(), key=itemgetter(*columns)): stable
RECURSIVE Sorted(_, _)
Sorted(d, cols) ==
    IF Len(d) = 0 THEN <<>>
    ELSE LET rest == Sorted(SubSeq(d, 1, Len(d) - 1), cols)
             x == d[Len(d)]
             n == Cardinality({ i \in 1..Len(rest) :
                     ~TupleLt(SortKey(x, cols), SortKey(rest[i], cols)) })
         IN  SubSeq(rest, 1, n) \o <<x>> \o SubSeq(rest, n + 1, Len(rest))

\* a sort that leaves the rows where they were put
sort_unsorted(T, cols) == T

\* DataTable.sort(*columns): only the row locations change
sort(T, cols) ==
    LET ordered == Sorted(T.data, cols)
    IN  [T EXCEPT !.row_locations = [i \in 1..Len(ordered) |-> ordered[i].key]]

\* DataTable.move_cursor(row=row)
move_cursor(T, row) == validate_cursor([T EXCEPT !.cursor_row = row])

-----------------------------------------------------------------------------
(* PodTable.update_pods, from the return of get_pods to the end *)

pod_table_key_list == <<"namespace", "name", "ready", "status">>

\* a dict built from (key, value) pairs in order: a repeated key keeps its
\* first place and takes the last value
RECURSIVE Dict(_)
Dict(pairs) ==
    IF Len(pairs) = 0 THEN <<>>
    ELSE LET init == Dict(SubSeq(pairs, 1, Len(pairs) - 1))
             p == pairs[Len(pairs)]
         IN  IF p.key \in Keys(init)
             THEN [i \in 1..Len(init) |-> IF init[i].key = p.key THEN p ELSE init[i]]
             ELSE Append(init, p)

\* lines 307-312
new_rows(pods, ns) ==
    Dict([i \in 1..Len(pods) |->
            [key |-> RowKey(pods[i]), row |-> pod_item(pods[i], ns = None)]])

\* Redraw with the flag ignored: every all-namespaces update redraws
RedrawWhenever(T, ns, flag) ==
    IF ns = None
    THEN [table |-> [clear(T) EXCEPT !.columns = <<>>], flag |-> FALSE,
          redrawn |-> TRUE]
    ELSE [table |-> T, flag |-> TRUE, redrawn |-> FALSE]

\* Redraw with the redraw block left out
RedrawNever(T, ns, flag) ==
    [table |-> T, flag |-> (ns # None) \/ flag, redrawn |-> FALSE]

\* lines 296-305: the forced redraw when the namespace column comes back
Redraw(T, ns, flag) ==
    LET flag1 == IF ns # None THEN TRUE ELSE flag
    IN  IF ns = None /\ flag1
        THEN [table |-> [clear(T) EXCEPT !.columns = <<>>], flag |-> FALSE,
              redrawn |-> TRUE]
        ELSE [table |-> T, flag |-> flag1, redrawn |-> FALSE]

\* lines 316-328
RECURSIVE EnsureColumns(_, _)
EnsureColumns(T, keys) ==
    IF Len(keys) = 0 THEN T
    ELSE EnsureColumns(ensure_column(T, Head(keys)), Tail(keys))

\* lines 331-335: rows still reported get their ready and status cells rewritten
RECURSIVE UpdateRows(_, _)
UpdateRows(T, rows) ==
    IF Len(rows) = 0 THEN T
    ELSE LET r == Head(rows)
             n == Len(r.row)
             T1 == update_cell(T, r.key, "ready", r.row[n - 1])
         IN  UpdateRows(update_cell(T1, r.key, "status", r.row[n]), Tail(rows))

\* RemoveRows with the deletions forgotten
RemoveRowsNone(T, deletes) == T

\* lines 339-340
RECURSIVE RemoveRows(_, _)
RemoveRows(T, deletes) ==
    IF Len(deletes) = 0 THEN T
    ELSE RemoveRows(remove_row(T, Head(deletes)), Tail(deletes))

\* lines 342-343
RECURSIVE AddRows(_, _)
AddRows(T, rows) ==
    IF Len(rows) = 0 THEN T
    ELSE AddRows(add_row(T, Head(rows).row, Head(rows).key), Tail(rows))

\* ClampSelected with the cursor sent back to the top
ClampSelectedTop(sel, nrows) == 0

\* line 345
ClampSelected(sel, nrows) == Min(sel, nrows)

\* The whole of update_pods after the await.  raised: pod_status raised
\* TypeError while new_rows was built, after the redraw block had run.
update_pods(T, flag, ns, pods) ==
    LET rd == Redraw(T, ns, flag)
        raised == \E i \in 1..Len(pods) : pod_status(pods[i]) = TypeError
        new == new_rows(pods, ns)
        sel == rd.table.cursor_row
        key_list == IF ns # None THEN Tail(pod_table_key_list)
                    ELSE pod_table_key_list
        T2 == IF ns # None THEN remove_column(rd.table, "namespace") ELSE rd.table
        T3 == EnsureColumns(T2, key_list)
        kept == SelectSeq(new, LAMBDA r : r.key \in Keys(T3.data))
        T4 == UpdateRows(T3, kept)
        all_keys == [i \in 1..Len(T3.data) |-> T3.data[i].key]
        deletes == SelectSeq(all_keys, LAMBDA k : k \notin Keys(new))
        T5 == RemoveRows(T4, deletes)
        fresh == SelectSeq(new, LAMBDA r : r.key \notin Keys(T3.data))
        T6 == AddRows(T5, fresh)
        T7 == sort(T6, key_list)
        sel1 == ClampSelected(sel, Len(T7.data))
    IN  IF raised
        THEN [table |-> rd.table, flag |-> rd.flag, raised |-> TRUE]
        ELSE [table |-> move_cursor(T7, sel1), flag |-> rd.flag, raised |-> FALSE,
              selected |-> sel1,
              added |-> Keys(fresh),
              dropped |-> (rd.redrawn /\ Len(T.data) > 0) \/ Len(deletes) > 0,
              redrawn |-> rd.redrawn]

-----------------------------------------------------------------------------
(* Log text *)

\* container names, log texts and filter patterns
ContC == <<99>>
ContD == <<100>>

\* pod.spec.containers of the pod get_pod returns, by name
PodContainers == { <<ContC>>, <<ContC, ContD>> }
NL == 10
Logs == { <<>>, <<101, 10, 119>>, <<119, 10, 101, 10>> }
PatE == <<101>>
PatAny == <<>>
PatParen == <<40>>
Patterns == {PatE, PatAny, PatParen}

\* str.split (line 160) on a one-character separator
RECURSIVE split(_, _)
split(s, sep) ==
    IF \A i \in DOMAIN s : s[i] # sep
    THEN <<s>>
    ELSE LET i == CHOOSE i \in DOMAIN s :
                      s[i] = sep /\ \A j \in 1..(i - 1) : s[j] # sep
         IN  <<SubSeq(s, 1, i - 1)>> \o split(SubSeq(s, i + 1, Len(s)), sep)

\* str.join (line 162)
RECURSIVE join(_, _)
join(sep, lines) ==
    IF lines = <<>> THEN <<>>
    ELSE IF Len(lines) = 1 THEN lines[1]
    ELSE lines[1] \o <<sep>> \o join(sep, Tail(lines))

\* re.search raises re.error for a pattern that does not compile: "("
re_error(regex) == regex = PatParen

\* re.search (line 160) for the patterns above, which are literal text: the
\* pattern occurs somewhere in the line
re_search(regex, line) ==
    \E i \in 0..(Len(line) - Len(regex)) :
        SubSeq(line, i + 1, i + Len(regex)) = regex

\* the list comprehension of lines 159-161
RECURSIVE content_lines(_, _)
content_lines(lines, regex) ==
    IF lines = <<>> THEN <<>>
    ELSE (IF re_search(regex, lines[1]) THEN <<lines[1]>> ELSE <<>>)
            \o content_lines(Tail(lines), regex)

\* StaticPodLogViewer.update_with_regex (lines 157-162); raised: re.search
\* raised, after self.regex was assigned
update_with_regex(V, regex) ==
    IF re_error(regex)
    THEN [static |-> [V EXCEPT !.regex = regex], raised |-> TRUE]
    ELSE [static |-> [V EXCEPT !.regex = regex,
                               !.content = join(NL, content_lines(
                                                split(V.log_, NL), regex))],
          raised |-> FALSE]

\* StaticPodLogViewer.update_clear_regex (lines 164-166)
update_clear_regex(V) == [V EXCEPT !.regex = None, !.content = V.log_]

\* refresh_logs that shows the new text unfiltered
refresh_logs_raw(V, log) ==
    [static |-> [V EXCEPT !.log_ = log, !.content = log, !.refreshed = TRUE],
     raised |-> FALSE]

\* StaticPodLogViewer.refresh_logs (lines 168-175), from the await on
refresh_logs(V, log) ==
    LET W == [V EXCEPT !.log_ = log, !.refreshed = TRUE]
    IN  IF W.regex # None
        THEN update_with_regex(W, W.regex)
        ELSE [static |-> update_clear_regex(W), raised |-> FALSE]

-----------------------------------------------------------------------------
(* State *)

Tasks == {"table", "app", "timer"}

\* stale (history): a call issued later has already returned
NoReq == [pending |-> FALSE, namespace |-> None, stale |-> FALSE]

\* StaticPodLogViewer.__init__ (lines 133-134); refreshed (history): a
\* refresh_logs has completed since the pattern was last set or cleared
NewViewer == [log_ |-> <<>>, regex |-> None, content |-> <<>>,
              refreshed |-> FALSE]

\* a screen of the stack.  state: "new" while it composes and its widgets
\* mount, "shown" once it takes keys, "refreshing" while its refresh_logs
\* awaits; options: the entries of its OptionList; static: PodLogScreen.static
Screen(kind, name, ns, container, state) ==
    [kind |-> kind, pod_name |-> name, pod_namespace |-> ns,
     container_name |-> container, state |-> state, options |-> <<>>,
     static |-> NewViewer]

RootScreen == Screen("Root", None, None, None, "shown")

Top == screen_stack[Len(screen_stack)]

\* a result callback queued for the app: the closure fn, its argument, and
\* what the closure holds (the pod of action_logs, the position in the stack
\* of the PodLogScreen of action_regex_filter)
Callback(fn, arg, name, ns, at) ==
    [fn |-> fn, arg |-> arg, pod_name |-> name, pod_namespace |-> ns, at |-> at]

\* KTer.__init__, KTer.compose, PodTable.__init__
Init ==
    /\ columns = <<>>
    /\ data = <<>>
    /\ row_locations = <<>>
    /\ cursor_row = 0
    /\ previously_namespaced = FALSE
    /\ selected = 0
    /\ namespace = None
    /\ api = Ctx1
    /\ pc = [table |-> "start", app |-> "start", timer |-> "off"]
    /\ req = [t \in Tasks |-> NoReq]
    /\ screen_stack = <<RootScreen>>
    /\ notifications = 0
    /\ callbacks = <<>>
    /\ unhandled = "none"
    /\ fault = "none"
    /\ last = [any |-> FALSE, namespace |-> None, pods |-> {}, added |-> {},
               dropped |-> FALSE, redrawn |-> FALSE, same_scope |-> FALSE,
               repeat |-> FALSE, stale |-> FALSE]

Alive == unhandled = "none"

nav_vars == <<screen_stack, notifications, callbacks, fault>>

-----------------------------------------------------------------------------
(* update_pods as each caller runs it *)

\* line 284: KubeInterface.get_pods is called and the handler suspends
CallGetPods(t, ns, state) ==
    /\ req' = [req EXCEPT ![t] = [pending |-> TRUE, namespace |-> ns, stale |-> FALSE]]
    /\ pc' = [pc EXCEPT ![t] = state]

ApplyUpdate(t, r, pods) ==
    /\ columns' = r.table.columns
    /\ data' = r.table.data
    /\ row_locations' = r.table.row_locations
    /\ cursor_row' = r.table.cursor_row
    /\ previously_namespaced' = r.flag
    /\ IF r.raised
       THEN /\ unhandled' = "TypeError"
            /\ UNCHANGED <<selected, last>>
       ELSE /\ unhandled' = unhandled
            /\ selected' = r.selected
            /\ last' = [any |-> TRUE, namespace |-> req[t].namespace,
                        pods |-> Range(pods), added |-> r.added,
                        dropped |-> r.dropped, redrawn |-> r.redrawn,
                        same_scope |-> last.any /\ last.namespace = req[t].namespace,
                        repeat |-> /\ last.any
                                   /\ last.namespace = req[t].namespace
                                   /\ last.pods = Range(pods),
                        stale |-> /\ req[t].stale
                                  /\ req[t].namespace # namespace]

\* get_pods returns and update_pods runs to its end (lines 286-348)
UpdatePodsResume(t) ==
    /\ Alive
    /\ req[t] # NoReq
    /\ \E pods \in PodLists(req[t].namespace) :
         ApplyUpdate(t, update_pods(Table, previously_namespaced,
                                    req[t].namespace, pods), pods)
    /\ req' = [u \in Tasks |->
                IF u = t THEN NoReq
                ELSE IF req[u] # NoReq THEN [req[u] EXCEPT !.stale = TRUE]
                ELSE req[u]]

\* get_pods raises ApiException: update_pods has no handler, nor has any
\* of its callers
UpdatePodsApiException(t) ==
    /\ Alive
    /\ req[t] # NoReq
    /\ req' = [req EXCEPT ![t] = NoReq]
    /\ unhandled' = "ApiException"
    /\ fault' = t
    /\ UNCHANGED <<table_vars, namespace, api, pc, screen_stack, notifications, callbacks>>

-----------------------------------------------------------------------------
(* Start-up and the poller *)

\* PodTable.on_mount (lines 272-274), up to the await
PodTableOnMount ==
    /\ Alive
    /\ pc.table = "start"
    /\ CallGetPods("table", None, "on_mount")
    /\ UNCHANGED <<table_vars, namespace, api, nav_vars, unhandled>>

\* PodTable.on_mount, from the await on
PodTableOnMountResume ==
    /\ pc.table = "on_mount"
    /\ UpdatePodsResume("table")
    /\ pc' = [pc EXCEPT !.table = "idle"]
    /\ UNCHANGED <<namespace, api, nav_vars>>

\* OnReady with the timer started before the first refresh is awaited
OnReadyTimerFirst ==
    /\ Alive
    /\ pc.app = "start"
    /\ pc.table = "idle"
    /\ req' = [req EXCEPT !["app"] =
                  [pending |-> TRUE, namespace |-> namespace, stale |-> FALSE]]
    /\ pc' = [pc EXCEPT !.app = "on_ready", !.timer = "wait"]
    /\ UNCHANGED <<table_vars, namespace, api, nav_vars, unhandled>>

\* KTer.on_ready (lines 420-422), up to the await in _update; the app is
\* ready once the widgets it composed have run their mount handlers
OnReady ==
    /\ Alive
    /\ pc.app = "start"
    /\ pc.table = "idle"
    /\ CallGetPods("app", namespace, "on_ready")
    /\ UNCHANGED <<table_vars, namespace, api, nav_vars, unhandled>>

\* KTer.on_ready, from the await on: set_interval(1, self._update)
OnReadyResume ==
    /\ pc.app = "on_ready"
    /\ UpdatePodsResume("app")
    /\ pc' = [pc EXCEPT !.app = "idle", !.timer = "wait"]
    /\ UNCHANGED <<namespace, api, nav_vars>>

\* a tick of the interval timer: KTer._update (lines 417-418) up to the await
TimerTick ==
    /\ Alive
    /\ pc.timer = "wait"
    /\ CallGetPods("timer", namespace, "_update")
    /\ UNCHANGED <<table_vars, namespace, api, nav_vars, unhandled>>

\* a tick falls due while the callback of an earlier one has not returned:
\* the timer is still awaiting it, and the tick is skipped
TimerTickSkipped ==
    /\ Alive
    /\ pc.timer = "_update"
    /\ UNCHANGED vars

\* KTer._update run by the timer, from the await on
TimerResume ==
    /\ pc.timer = "_update"
    /\ UpdatePodsResume("timer")
    /\ pc' = [pc EXCEPT !.timer = "wait"]
    /\ UNCHANGED <<namespace, api, nav_vars>>

\* get_pods fails with a transport error in any of the callers
GetPodsRaises == \E t \in Tasks : UpdatePodsApiException(t)

-----------------------------------------------------------------------------
(* The root table: cursor keys, namespace and context pickers *)

Modal == {"NamespaceSelectScreen", "KubeContextSelectScreen",
          "PodLogContainerSelectScreen", "PodLogRegexFilterScreen"}

\* the app handles a key: it is idle and has no callback queued
AppIdle == Alive /\ pc.app = "idle" /\ callbacks = <<>>

\* KTer.BINDINGS (lines 382-401) are the app's: they are reached from any
\* screen that is not modal
AppBindings ==
    /\ AppIdle
    /\ Top.kind \notin Modal
    /\ Top.state = "shown"
    /\ Len(screen_stack) < MaxDepth

\* the cursor keys of the DataTable (cursor_type = "row", line 273), pressed
\* while the table has a row to move to
MoveCursor ==
    /\ Alive
    /\ pc.table = "idle"
    /\ Top = RootScreen
    /\ Len(data) > 0
    /\ \E d \in {-1, 1} : cursor_row' = clamp(cursor_row + d, 0, Len(data) - 1)
    /\ UNCHANGED <<columns, data, row_locations, previously_namespaced, selected,
                   last, namespace, api, pc, req, nav_vars, unhandled>>

\* KTer.action_select_namespace (lines 424-429) and
\* NamespaceSelectScreen.compose (lines 69-70), where get_namespaces may raise
ActionSelectNamespace ==
    /\ AppBindings
    /\ screen_stack' = Append(screen_stack,
                              Screen("NamespaceSelectScreen", None, None, None, "shown"))
    /\ \/ unhandled' = unhandled
       \/ unhandled' = "ApiException"
    /\ UNCHANGED <<table_vars, namespace, api, pc, req, notifications,
                   callbacks, fault>>

\* NamespaceSelectScreen.on_option_list_option_selected (lines 72-76): "all"
\* dismisses with None and then, there being no return, with the prompt as
\* well.  A dismissal hands the result to the callback and pops the top
\* screen.  What Screen.dismiss does for a screen that has been dismissed
\* already is the framework's: the second call is dropped, or it acts as a
\* dismissal does, and then its pop finds the screen below the picker, or
\* fails when that is the root.
NamespaceOptionSelected ==
    /\ Alive
    /\ Top.kind = "NamespaceSelectScreen"
    /\ LET popped == SubSeq(screen_stack, 1, Len(screen_stack) - 1)
           first  == Callback("set_namespace", None, None, None, 0) IN
       \E prompt \in {All} \cup Namespaces :
         IF prompt = All
         THEN \/ /\ callbacks' = Append(callbacks, first)
                 /\ screen_stack' = popped
                 /\ unhandled' = unhandled
              \/ /\ callbacks' = callbacks
                       \o <<first, Callback("set_namespace", prompt, None, None, 0)>>
                 /\ IF Len(popped) <= 1
                    THEN /\ screen_stack' = popped
                         /\ unhandled' = "ScreenStackError"
                    ELSE /\ screen_stack' = SubSeq(popped, 1, Len(popped) - 1)
                         /\ unhandled' = unhandled
         ELSE /\ callbacks' = Append(callbacks,
                                     Callback("set_namespace", prompt, None, None, 0))
              /\ screen_stack' = popped
              /\ unhandled' = unhandled
    /\ UNCHANGED <<table_vars, namespace, api, pc, req, notifications, fault>>

\* the callback set_namespace (lines 425-427), up to the await in _update
SetNamespace ==
    /\ Alive
    /\ pc.app = "idle"
    /\ callbacks # <<>>
    /\ Head(callbacks).fn = "set_namespace"
    /\ namespace' = Head(callbacks).arg
    /\ CallGetPods("app", Head(callbacks).arg, "set_namespace")
    /\ callbacks' = Tail(callbacks)
    /\ UNCHANGED <<table_vars, api, screen_stack, notifications,
                   unhandled, fault>>

\* set_namespace, from the await on
SetNamespaceResume ==
    /\ pc.app = "set_namespace"
    /\ UpdatePodsResume("app")
    /\ pc' = [pc EXCEPT !.app = "idle"]
    /\ UNCHANGED <<namespace, api, nav_vars>>

\* KTer.action_select_context (lines 431-436) and
\* KubeContextSelectScreen.compose (lines 89-91)
ActionSelectContext ==
    /\ AppBindings
    /\ screen_stack' = Append(screen_stack,
                              Screen("KubeContextSelectScreen", None, None, None, "shown"))
    /\ UNCHANGED <<table_vars, namespace, api, pc, req, notifications,
                   callbacks, unhandled, fault>>

\* KubeContextSelectScreen.on_option_list_option_selected (lines 93-95)
ContextOptionSelected ==
    /\ Alive
    /\ Top.kind = "KubeContextSelectScreen"
    /\ \E prompt \in Contexts :
         callbacks' = Append(callbacks, Callback("set_context", prompt, None, None, 0))
    /\ screen_stack' = SubSeq(screen_stack, 1, Len(screen_stack) - 1)
    /\ UNCHANGED <<table_vars, namespace, api, pc, req, notifications,
                   unhandled, fault>>

\* KubeInterface.set_context (lines 53-55)
set_context(context) == context

\* the callback set_context (lines 432-434): the coroutine self._update()
\* returns is never awaited, so no refresh starts
SetContext ==
    /\ Alive
    /\ pc.app = "idle"
    /\ callbacks # <<>>
    /\ Head(callbacks).fn = "set_context"
    /\ api' = set_context(Head(callbacks).arg)
    /\ callbacks' = Tail(callbacks)
    /\ UNCHANGED <<table_vars, namespace, pc, req, screen_stack, notifications, unhandled, fault>>

\* escape: the binding app.pop_screen of every screen but the root
Escape ==
    /\ AppIdle
    /\ Len(screen_stack) > 1
    /\ Top.state = "shown"
    /\ screen_stack' = SubSeq(screen_stack, 1, Len(screen_stack) - 1)
    /\ UNCHANGED <<table_vars, namespace, api, pc, req, notifications,
                   callbacks, unhandled, fault>>

-----------------------------------------------------------------------------
(* Logs and pod summaries *)

\* App.pop_screen
pop_screen(stack) == SubSeq(stack, 1, Len(stack) - 1)

\* DataTable.get_cell_at for the row at a position of the display
CellAt(row_i, column) ==
    (CHOOSE r \in Range(data) : r.key = row_locations[row_i + 1]).cells[column]

\* the namespace of a row as action_logs and on_data_table_row_selected
\* find it: the cell, or KTer.namespace when the table has no such column
RowNamespace(row_i) ==
    IF "namespace" \in Range(columns) THEN CellAt(row_i, "namespace")
    ELSE namespace

\* KTer.action_logs (lines 438-459): get_cell_at raises CellDoesNotExist
\* when the table has no row under the cursor
ActionLogs ==
    /\ AppBindings
    /\ Cardinality({ i \in DOMAIN screen_stack :
                       screen_stack[i].kind = "PodLogScreen" }) < MaxLogScreens
    /\ IF cursor_row + 1 \in DOMAIN row_locations
       THEN /\ screen_stack' = Append(screen_stack,
                  Screen("PodLogContainerSelectScreen",
                         CellAt(cursor_row, "name"), RowNamespace(cursor_row),
                         None, "new"))
            /\ UNCHANGED <<unhandled, fault>>
       ELSE /\ unhandled' = "CellDoesNotExist"
            /\ fault' = "get_cell_at"
            /\ UNCHANGED screen_stack
    /\ UNCHANGED <<table_vars, namespace, api, pc, req, notifications,
                   callbacks>>

\* the picker that lists the containers whatever their number
never_dismisses(containers) == FALSE

\* line 256: a pod of one container needs no choice
dismisses(containers) == Len(containers) = 1

\* PodLogContainerSelectScreen.compose (lines 250-259).  get_pod raises:
\* the handler notifies and pops, then reads pod, which was never bound.
\* get_pod returns: one container dismisses the picker with no result.
PodLogContainerSelectScreenCompose ==
    /\ Alive
    /\ Top.kind = "PodLogContainerSelectScreen"
    /\ Top.state = "new"
    /\ \/ /\ notifications < MaxNotifications
          /\ notifications' = notifications + 1
          /\ screen_stack' = pop_screen(screen_stack)
          /\ unhandled' = "UnboundLocalError"
          /\ fault' = "PodLogContainerSelectScreen"
          /\ UNCHANGED callbacks
       \/ \E containers \in PodContainers :
            IF dismisses(containers)
            THEN /\ callbacks' = Append(callbacks,
                        Callback("push_log_screen", None, Top.pod_name,
                                 Top.pod_namespace, 0))
                 /\ screen_stack' = pop_screen(screen_stack)
                 /\ UNCHANGED <<notifications, unhandled, fault>>
            ELSE /\ screen_stack' =
                        [screen_stack EXCEPT ![Len(screen_stack)] =
                            [@ EXCEPT !.state = "shown", !.options = containers]]
                 /\ UNCHANGED <<notifications, callbacks, unhandled, fault>>
    /\ UNCHANGED <<table_vars, namespace, api, pc, req>>

\* PodLogContainerSelectScreen.on_option_list_option_selected (lines 261-263)
ContainerOptionSelected ==
    /\ Alive
    /\ Top.kind = "PodLogContainerSelectScreen"
    /\ Top.state = "shown"
    /\ \E prompt \in Range(Top.options) :
         callbacks' = Append(callbacks,
             Callback("push_log_screen", prompt, Top.pod_name,
                      Top.pod_namespace, 0))
    /\ screen_stack' = pop_screen(screen_stack)
    /\ UNCHANGED <<table_vars, namespace, api, pc, req, notifications,
                   unhandled, fault>>

\* the callback push_log_screen (lines 452-455), PodLogScreen.compose (lines
\* 211-223) and StaticPodLogViewer.on_mount (lines 139-143) up to the await
PushLogScreen ==
    /\ Alive
    /\ pc.app = "idle"
    /\ callbacks # <<>>
    /\ Head(callbacks).fn = "push_log_screen"
    /\ screen_stack' = Append(screen_stack,
           Screen("PodLogScreen", Head(callbacks).pod_name,
                  Head(callbacks).pod_namespace, Head(callbacks).arg, "new"))
    /\ callbacks' = Tail(callbacks)
    /\ UNCHANGED <<table_vars, namespace, api, pc, req, notifications,
                   unhandled, fault>>

\* the screen at a position of the stack with its viewer and state replaced
WithStatic(stack, i, V, state) ==
    [stack EXCEPT ![i] = [@ EXCEPT !.static = V, !.state = state]]

\* StaticPodLogViewer.on_mount (lines 139-155), from the await on.
\* get_pod_logs raises: notify, pop whatever screen is on top (pop_screen
\* raises ScreenStackError when only one screen is left), then update.
StaticPodLogViewerOnMount ==
    /\ Alive
    /\ \E i \in DOMAIN screen_stack :
         /\ screen_stack[i].kind = "PodLogScreen"
         /\ screen_stack[i].state = "new"
         /\ LET V == screen_stack[i].static IN
            \/ /\ \E log \in Logs :
                    screen_stack' = WithStatic(screen_stack, i,
                        [V EXCEPT !.log_ = log, !.content = log], "shown")
               /\ UNCHANGED <<notifications, unhandled, fault>>
            \/ /\ notifications < MaxNotifications
               /\ notifications' = notifications + 1
               /\ fault' = "PodLogScreen"
               /\ IF Len(screen_stack) <= 1
                  THEN /\ unhandled' = "ScreenStackError"
                       /\ UNCHANGED screen_stack
                  ELSE /\ unhandled' = unhandled
                       /\ screen_stack' =
                            IF i < Len(screen_stack)
                            THEN WithStatic(pop_screen(screen_stack), i,
                                     [V EXCEPT !.content = V.log_], "shown")
                            ELSE pop_screen(screen_stack)
    /\ UNCHANGED <<table_vars, namespace, api, pc, req, callbacks>>

\* the log screen on top takes a key
LogKeys ==
    /\ AppIdle
    /\ Top.kind = "PodLogScreen"
    /\ Top.state = "shown"

\* PodLogScreen.action_refresh_logs (lines 234-235) and refresh_logs (lines
\* 168-171), up to the await
ActionRefreshLogs ==
    /\ LogKeys
    /\ screen_stack' = [screen_stack EXCEPT ![Len(screen_stack)] =
                            [@ EXCEPT !.state = "refreshing"]]
    /\ pc' = [pc EXCEPT !.app = "refresh_logs"]
    /\ UNCHANGED <<table_vars, namespace, api, req, notifications, callbacks,
                   unhandled, fault>>

\* refresh_logs, from the await on; get_pod_logs raising has no handler
ActionRefreshLogsResume ==
    /\ Alive
    /\ pc.app = "refresh_logs"
    /\ \E i \in DOMAIN screen_stack :
         /\ screen_stack[i].state = "refreshing"
         /\ \/ /\ \E log \in Logs :
                    LET r == refresh_logs(screen_stack[i].static, log) IN
                    /\ screen_stack' =
                           WithStatic(screen_stack, i, r.static, "shown")
                    /\ unhandled' = IF r.raised THEN "re.error" ELSE unhandled
               /\ pc' = [pc EXCEPT !.app = "idle"]
               /\ UNCHANGED fault
            \/ /\ unhandled' = "ApiException"
               /\ fault' = "refresh_logs"
               /\ UNCHANGED <<screen_stack, pc>>
    /\ UNCHANGED <<table_vars, namespace, api, req, notifications, callbacks>>

\* PodLogScreen.action_regex_filter (lines 225-229) and
\* PodLogRegexFilterScreen.compose (lines 182-183)
ActionRegexFilter ==
    /\ LogKeys
    /\ Len(screen_stack) < MaxDepth
    /\ screen_stack' = Append(screen_stack,
           Screen("PodLogRegexFilterScreen", None, None, None, "shown"))
    /\ UNCHANGED <<table_vars, namespace, api, pc, req, notifications,
                   callbacks, unhandled, fault>>

\* PodLogRegexFilterScreen.on_input_submitted (lines 185-186); the screen
\* was pushed by the PodLogScreen under it
InputSubmitted ==
    /\ Alive
    /\ Top.kind = "PodLogRegexFilterScreen"
    /\ \E value \in Patterns :
         callbacks' = Append(callbacks,
             Callback("regex_filter", value, None, None,
                      Len(screen_stack) - 1))
    /\ screen_stack' = pop_screen(screen_stack)
    /\ UNCHANGED <<table_vars, namespace, api, pc, req, notifications,
                   unhandled, fault>>

\* the callback regex_filter (lines 226-227)
RegexFilter ==
    /\ Alive
    /\ pc.app = "idle"
    /\ callbacks # <<>>
    /\ Head(callbacks).fn = "regex_filter"
    /\ LET i == Head(callbacks).at
           r == update_with_regex(
                    [screen_stack[i].static EXCEPT !.refreshed = FALSE],
                    Head(callbacks).arg)
       IN  /\ screen_stack' =
                  WithStatic(screen_stack, i, r.static, screen_stack[i].state)
           /\ unhandled' = IF r.raised THEN "re.error" ELSE unhandled
    /\ callbacks' = Tail(callbacks)
    /\ UNCHANGED <<table_vars, namespace, api, pc, req, notifications, fault>>

\* PodLogScreen.action_clear_regex (lines 231-232)
ActionClearRegex ==
    /\ LogKeys
    /\ screen_stack' = WithStatic(screen_stack, Len(screen_stack),
           update_clear_regex([Top.static EXCEPT !.refreshed = FALSE]),
           "shown")
    /\ UNCHANGED <<table_vars, namespace, api, pc, req, notifications,
                   callbacks, unhandled, fault>>

\* KTer.on_data_table_row_selected (lines 461-471): enter on a row of the
\* table
OnDataTableRowSelected ==
    /\ AppIdle
    /\ Top = RootScreen
    /\ cursor_row + 1 \in DOMAIN row_locations
    /\ screen_stack' = Append(screen_stack,
           Screen("PodSummaryScreen", CellAt(cursor_row, "name"),
                  RowNamespace(cursor_row), None, "new"))
    /\ UNCHANGED <<table_vars, namespace, api, pc, req, notifications,
                   callbacks, unhandled, fault>>

\* PodSummaryScreen.compose (lines 109-113): get_pod raising has no handler
PodSummaryScreenCompose ==
    /\ Alive
    /\ Top.kind = "PodSummaryScreen"
    /\ Top.state = "new"
    /\ \/ /\ screen_stack' = [screen_stack EXCEPT ![Len(screen_stack)] =
                                  [@ EXCEPT !.state = "shown"]]
          /\ UNCHANGED <<unhandled, fault>>
       \/ /\ unhandled' = "ApiException"
          /\ fault' = "PodSummaryScreen"
          /\ UNCHANGED screen_stack
    /\ UNCHANGED <<table_vars, namespace, api, pc, req, notifications,
                   callbacks>>

-----------------------------------------------------------------------------

Next ==
    \/ PodTableOnMount
    \/ PodTableOnMountResume
    \/ OnReady
    \/ OnReadyResume
    \/ TimerTick
    \/ TimerTickSkipped
    \/ TimerResume
    \/ GetPodsRaises
    \/ MoveCursor
    \/ ActionSelectNamespace
    \/ NamespaceOptionSelected
    \/ SetNamespace
    \/ SetNamespaceResume
    \/ ActionSelectContext
    \/ ContextOptionSelected
    \/ SetContext
    \/ Escape

Spec == Init /\ [][Next]_vars

\* the program with the poller at rest after start-up and the namespace and
\* context left as they are: the log and summary screens
NextNav ==
    \/ PodTableOnMount
    \/ PodTableOnMountResume
    \/ OnReady
    \/ OnReadyResume
    \/ MoveCursor
    \/ ActionLogs
    \/ PodLogContainerSelectScreenCompose
    \/ ContainerOptionSelected
    \/ PushLogScreen
    \/ StaticPodLogViewerOnMount
    \/ ActionRefreshLogs
    \/ ActionRefreshLogsResume
    \/ ActionRegexFilter
    \/ InputSubmitted
    \/ RegexFilter
    \/ ActionClearRegex
    \/ OnDataTableRowSelected
    \/ PodSummaryScreenCompose
    \/ Escape

SpecNav == Init /\ [][NextNav]_vars

\* the program with the poller at rest after start-up and the log screens
\* left unfiltered: every screen the application pushes, and the namespace
NextStack ==
    \/ PodTableOnMount
    \/ PodTableOnMountResume
    \/ OnReady
    \/ OnReadyResume
    \/ MoveCursor
    \/ ActionSelectNamespace
    \/ NamespaceOptionSelected
    \/ SetNamespace
    \/ SetNamespaceResume
    \/ ActionSelectContext
    \/ ContextOptionSelected
    \/ SetContext
    \/ ActionLogs
    \/ PodLogContainerSelectScreenCompose
    \/ ContainerOptionSelected
    \/ PushLogScreen
    \/ StaticPodLogViewerOnMount
    \/ OnDataTableRowSelected
    \/ PodSummaryScreenCompose
    \/ Escape

SpecStack == Init /\ [][NextStack]_vars

-----------------------------------------------------------------------------
(* Claims *)

\* a step in which some update_pods ran to its end
Completes ==
    /\ \E t \in Tasks : req[t].pending /\ ~req'[t].pending
    /\ unhandled' = "none"
    /\ fault' = fault

SnapshotKeys(pods) == { RowKey(p) : p \in pods }

\* C1: after every update_pods that completes, the row keys of the table are
\* exactly the identities of the snapshot it was given: one row per
\* identity, no row for an identity the snapshot lacks.
C1_RowsAreTheSnapshot ==
    [][Completes =>
         /\ Keys(data') = SnapshotKeys(last'.pods)
         /\ Len(data') = Cardinality({ Identity(p) : p \in last'.pods })
         /\ Range(row_locations') = Keys(data')
         /\ Len(row_locations') = Len(data')]_vars

\* an update that kept a row, dropped a row and added a row
C1_Witness ==
    /\ Alive
    /\ last.any /\ last.dropped /\ ~last.redrawn
    /\ last.added # {}
    /\ Keys(data) \ last.added # {}

\* C2: the row update_pods hands to move_cursor is a row of the table: within
\* 0..k-1 for a table of k > 0 rows, 0 for an empty one.
C2_SelectedIsARow ==
    Alive => IF Len(data) = 0 THEN selected = 0
             ELSE selected \in 0..(Len(data) - 1)

\* C3: an update with the snapshot and the namespace of the update before it
\* changes neither rows, cells, row order, columns nor the cursor.
C3_Idempotent ==
    [][(Completes /\ last'.repeat) =>
         /\ data' = data
         /\ row_locations' = row_locations
         /\ columns' = columns
         /\ cursor_row' = cursor_row]_vars

\* a repeated update of a table of two rows with the cursor on the second
C3_Witness ==
    /\ Alive
    /\ last.repeat
    /\ Len(data) = 2
    /\ cursor_row = 1

CellsOf(d, k) == (CHOOSE r \in Range(d) : r.key = k).cells

\* C4: when two consecutive updates have the same namespace, a row whose
\* identity is in both the table and the snapshot stays (it is neither
\* cleared nor added again, and only its ready and status cells may change),
\* and the rows added are exactly the identities new in the snapshot.
C4_RowsKeptInPlace ==
    [][(Completes /\ last'.same_scope) =>
         /\ ~last'.redrawn
         /\ last'.added = SnapshotKeys(last'.pods) \ Keys(data)
         /\ Len(data') = Cardinality(Keys(data'))
         /\ \A k \in Keys(data) \cap SnapshotKeys(last'.pods) :
              /\ k \notin last'.added
              /\ \A c \in DOMAIN CellsOf(data, k) \ {"ready", "status"} :
                   CellsOf(data', k)[c] = CellsOf(data, k)[c]]_vars

\* an update in the same namespace that kept a row and added one
C4_Witness ==
    /\ Alive
    /\ last.same_scope
    /\ last.added # {}
    /\ Keys(data) \ last.added # {}

\* C5: when the get_pods call of a timer tick fails, the table is left as it
\* was, a notification is posted, the root screen stays at the bottom of the
\* stack and the application goes on (later ticks refresh).
C5_TickFailureIsReported ==
    [][(fault' = "timer" /\ fault # "timer") =>
         /\ UNCHANGED <<columns, data, row_locations, cursor_row,
                        previously_namespaced>>
         /\ notifications' = notifications + 1
         /\ screen_stack'[1] = RootScreen
         /\ unhandled' = "none"]_vars

\* the initial refreshes and the timer's
PollerCalls ==
    { t \in Tasks : /\ req[t].pending
                    /\ t = "app" => pc.app = "on_ready" }

\* C7: of the refreshes started by PodTable.on_mount, KTer.on_ready and the
\* timer, at most one is in flight at any time.
C7_OnePollerCallInFlight == Cardinality(PollerCalls) <= 1

\* the refresh of a tick is in flight, so that the next tick is skipped
C7_Witness ==
    /\ Alive
    /\ pc.timer = "_update"
    /\ req["timer"].pending
    /\ ENABLED TimerTickSkipped

\* no call in flight, no callback waiting
Quiescent ==
    /\ Alive
    /\ \A t \in Tasks : ~req[t].pending
    /\ callbacks = <<>>
    /\ pc.app = "idle"

\* C8: a result fetched for a namespace that is no longer the one selected
\* is never applied after the result of a call issued later, so that once
\* every refresh has completed the rows and the namespace column are those
\* of the namespace selected.
C8_NoStaleResult ==
    /\ last.any => ~last.stale
    /\ (Quiescent /\ last.any) =>
         /\ last.namespace = namespace
         /\ ("namespace" \in Range(columns)) <=> (namespace = None)

\* a view fails while it is set up: the gateway call of the screen on top,
\* not shown yet, raises
ViewFailure ==
    /\ Top.state = "new"
    /\ Top.kind \in {"PodLogContainerSelectScreen", "PodSummaryScreen",
                     "PodLogScreen"}
    /\ fault' = Top.kind
    /\ <<notifications, unhandled>>' # <<notifications, unhandled>>

\* C6: when the gateway call of a container picker, a pod summary or a log
\* view fails while the view is set up, a notification is posted, exactly
\* that view is popped (the stack is what it was before the push), no log
\* view is queued after a failed picker and no further error is raised.
C6_ViewFailureIsReportedAndPopped ==
    [][ViewFailure =>
         /\ notifications' = notifications + 1
         /\ screen_stack' = pop_screen(screen_stack)
         /\ callbacks' = callbacks
         /\ unhandled' = "none"]_vars

\* the text a viewer should show: the lines of the raw text that match the
\* pattern, in order, or the raw text when there is no pattern
Displayed(V) ==
    IF V.regex = None THEN V.log_
    ELSE LET Matches(line) == re_search(V.regex, line)
         IN  join(NL, SelectSeq(split(V.log_, NL), Matches))

LogScreens == { i \in DOMAIN screen_stack : screen_stack[i].kind = "PodLogScreen" }

\* C10: while the application runs, every log view shows the lines of its
\* raw text that match the active pattern, or the raw text when no pattern
\* is set, whatever the order of fetches, refreshes, filters and clears.
C10_DisplayIsFilteredLog ==
    Alive => \A i \in LogScreens :
                screen_stack[i].static.content = Displayed(screen_stack[i].static)

\* a refresh has completed under a pattern that keeps some lines and drops
\* others
C10_Witness ==
    /\ Alive
    /\ \E i \in LogScreens :
         LET V == screen_stack[i].static IN
         /\ V.refreshed
         /\ V.regex = PatE
         /\ V.content # <<>>
         /\ V.content # V.log_

ContainerPickers ==
    { i \in DOMAIN screen_stack :
        screen_stack[i].kind = "PodLogContainerSelectScreen" }

\* C11: a container picker never waits for a choice among fewer than two
\* containers: for a pod of one container it dismisses itself with no
\* result as it composes, and the callback then pushes the log screen of
\* that pod with no container named.
C11_OneContainerNeedsNoChoice ==
    /\ [](\A i \in ContainerPickers :
             screen_stack[i].state = "shown"
                => Len(screen_stack[i].options) >= 2)
    /\ [][(/\ Top.kind = "PodLogContainerSelectScreen"
           /\ Top.state = "new"
           /\ unhandled' = "none"
           /\ screen_stack' = pop_screen(screen_stack))
          => callbacks' = Append(callbacks,
                 Callback("push_log_screen", None, Top.pod_name,
                          Top.pod_namespace, 0))]_vars
    /\ [][(/\ callbacks # <<>>
           /\ Head(callbacks).fn = "push_log_screen"
           /\ callbacks' = Tail(callbacks))
          => screen_stack' = Append(screen_stack,
                 Screen("PodLogScreen", Head(callbacks).pod_name,
                        Head(callbacks).pod_namespace, Head(callbacks).arg,
                        "new"))]_vars

\* the log screen of a pod of one container on the root table
C11_Witness ==
    /\ Alive
    /\ Len(screen_stack) = 2
    /\ Top.kind = "PodLogScreen"
    /\ Top.container_name = None

\* C12: the stack is never empty, the root screen is always its bottom, and
\* no pop is attempted (ScreenStackError) when only the root is left,
\* whatever the keys, dismissals and error-path pops.
C12_RootStaysAtTheBottom ==
    /\ Len(screen_stack) >= 1
    /\ screen_stack[1] = RootScreen
    /\ unhandled # "ScreenStackError"

\* C13: a dismissal of the namespace picker hands its result to the callback
\* exactly once, and the callback sets the scope to the namespace selected,
\* or to the empty scope for "all", never to the literal "all", and starts a
\* reconciliation for that scope at once.
C13_OneDismissalOneScope ==
    /\ [](namespace # All)
    /\ [][(Top.kind = "NamespaceSelectScreen" /\ callbacks' # callbacks)
          => Len(callbacks') = Len(callbacks) + 1]_vars
    /\ [][(/\ callbacks # <<>>
           /\ Head(callbacks).fn = "set_namespace"
           /\ callbacks' = Tail(callbacks))
          => /\ namespace' = Head(callbacks).arg
             /\ req'.app.pending
             /\ req'.app.namespace = namespace']_vars

\* C14: a dismissal of the context picker switches the gateway to the
\* context selected and starts a reconciliation: a get_pods call of the
\* application is in flight when the callback has run.
C14_ContextSwitchReconciles ==
    [][(/\ callbacks # <<>>
        /\ Head(callbacks).fn = "set_context"
        /\ callbacks' = Tail(callbacks))
       => /\ api' = Head(callbacks).arg
          /\ req'.app.pending
          /\ pc'.app # "idle"]_vars

\* C15: a pattern that does not compile is never a failure: no error leaves
\* the filter, the log view stays on the stack, and the view whose pattern
\* it is shows no line at all.
C15_InvalidPatternMatchesNothing ==
    /\ unhandled # "re.error"
    /\ \A i \in LogScreens :
         re_error(screen_stack[i].static.regex)
            => screen_stack[i].static.content = <<>>

\* the status the text gives a pod: the waiting reason of the first
\* container reported as waiting, otherwise the phase
FirstWaitingOrPhase(pod) ==
    LET cs == IF pod.is_none THEN <<>> ELSE pod.container_statuses
        waiting == { i \in 1..Len(cs) : cs[i].waiting # None }
    IN  IF waiting = {} THEN pod.phase
        ELSE cs[CHOOSE i \in waiting : \A j \in waiting : i <= j].waiting

\* C16: pod_status never fails, for a pod with no reported container
\* statuses either: every row shows the waiting reason of the pod's first
\* waiting container, otherwise its phase, and a pod with no reported
\* statuses shows "0/0" as its readiness.
C16_StatusNeverFails ==
    /\ unhandled # "TypeError"
    /\ (Alive /\ last.any) =>
          \A p \in last.pods :
             /\ CellsOf(data, RowKey(p))["status"] = FirstWaitingOrPhase(p)
             /\ p.is_none => CellsOf(data, RowKey(p))["ready"] = <<48, 47, 48>>

\* the columns of a reconciliation for a scope
ActiveColumns(ns) ==
    IF ns = None THEN pod_table_key_list ELSE Tail(pod_table_key_list)

\* the cells of the row shown at a position, in the order of the columns
ShownKey(i, cols) ==
    SortKey(CHOOSE r \in Range(data) : r.key = row_locations[i], cols)

\* C17: after every update_pods that completes, the rows as shown ascend
\* strictly in the lexicographic order of the cells of the active columns,
\* left to right: (namespace, name, ready, status) for all namespaces,
\* (name, ready, status) for one.  The order is therefore fixed by the cells
\* alone, whatever the order in which this or an earlier snapshot listed the
\* pods.
C17_RowsAscendByActiveColumns ==
    (Alive /\ last.any) =>
        LET cols == ActiveColumns(last.namespace) IN
        /\ columns = cols
        /\ \A i \in 1..(Len(row_locations) - 1) :
              TupleLt(ShownKey(i, cols), ShownKey(i + 1, cols))

\* an update has completed whose sort moved a row from the place it was
\* inserted at
C17_Witness ==
    /\ Alive
    /\ last.any
    /\ Len(data) >= 2
    /\ \E i \in 1..Len(data) : row_locations[i] # data[i].key

\* a step in which an update_pods completes after an earlier one, under the
\* other visibility of the namespace column
VisibilityDiffers == (last.namespace = None) # (last'.namespace = None)

\* C18: after an update_pods that completes the namespace column is there
\* iff the update was for all namespaces, and the table is rebuilt, rows
\* dropped and columns declared again, exactly when the visibility of the
\* namespace column differs from the update before, in either direction.
C18_RebuildWheneverVisibilityDiffers ==
    [][Completes =>
         /\ ("namespace" \in Range(columns')) <=> (last'.namespace = None)
         /\ last.any => (last'.redrawn <=> VisibilityDiffers)]_vars

\* C18 as the code has it: the namespace column is there iff the update was
\* for all namespaces, and the table is rebuilt exactly when an update for
\* all namespaces follows one for a single namespace; going from all
\* namespaces to one only removes the column, and the rows still reported
\* stay in the table.
C18_RebuildOnlyWhenColumnReturns ==
    [][Completes =>
         /\ ("namespace" \in Range(columns')) <=> (last'.namespace = None)
         /\ last.any =>
              /\ last'.redrawn <=> (last.namespace # None /\ last'.namespace = None)
              /\ (last.namespace = None /\ last'.namespace # None)
                    => /\ Keys(data) \cap SnapshotKeys(last'.pods) \subseteq Keys(data')
                       /\ last'.added \cap Keys(data) = {}]_vars

\* the table has been rebuilt with the namespace column back, and has rows
C18_Witness ==
    /\ Alive
    /\ last.any
    /\ last.redrawn
    /\ last.namespace = None
    /\ Len(data) > 0
    /\ Head(columns) = "namespace"

\* the screens the actions of KTer.BINDINGS push
RootActionScreens ==
    {"NamespaceSelectScreen", "KubeContextSelectScreen",
     "PodLogContainerSelectScreen"}

\* C19: select_namespace, select_context and logs push their screen only
\* when the root screen is on top, so they do nothing under a log screen, a
\* summary or a picker; and the stack is never deeper than root, log screen,
\* regex input.
C19_RootActionsOnlyAtRoot ==
    /\ [][(/\ Len(screen_stack') = Len(screen_stack) + 1
           /\ screen_stack'[Len(screen_stack')].kind \in RootActionScreens)
          => screen_stack = <<RootScreen>>]_vars
    /\ [](/\ Len(screen_stack) <= 3
          /\ Len(screen_stack) = 3
                => /\ screen_stack[2].kind = "PodLogScreen"
                   /\ screen_stack[3].kind = "PodLogRegexFilterScreen")

\* the screens that are given a pod
PodScreens == {"PodLogContainerSelectScreen", "PodSummaryScreen"}

\* C20: the namespace and name that action_logs and the row selection hand
\* to the screen they push are those of the row under the cursor of the
\* table as it is shown, also while a change of scope is under way; on an
\* empty table nothing is pushed and nothing is raised.
C20_PushedPodIsTheCursorRow ==
    /\ [](unhandled # "CellDoesNotExist")
    /\ [][(/\ Len(screen_stack') = Len(screen_stack) + 1
           /\ screen_stack'[Len(screen_stack')].kind \in PodScreens)
          => /\ cursor_row + 1 \in DOMAIN row_locations
             /\ row_locations[cursor_row + 1] =
                   screen_stack'[Len(screen_stack')].pod_namespace \o Dot
                      \o screen_stack'[Len(screen_stack')].pod_name]_vars

=============================================================================
